---- MODULE Spec2Model ----
(***************************************************************************)
(* A model of the Inngest function `helloWorld` of src/inngest/functions.ts *)
(* (provisioning steps, the ensure-dev-server prober, the generateText      *)
(* tool loop with its tools, stop conditions and onStepFinish hook) and of  *)
(* extractTaskSummary of src/lib/utils.ts.                                  *)
(*                                                                          *)
(* Strings are sequences of tokens, so that trimming, template literals     *)
(* and the summary regular expression are computed rather than assumed.     *)
(* The durable step log (step.run) is not part of the sources: it is        *)
(* modelled from the specification's section 4.1 as a log of committed      *)
(* outcomes keyed by step name that is consulted before an action runs.     *)
(***************************************************************************)
EXTENDS Integers, Sequences, FiniteSets, TLC

\* ------------------------------------------------------------------ bounds

\* Most tool calls the model may put into one turn.
MaxCalls == 2

\* Most interruptions (abandon the in-memory execution, resume from the log).
MaxInterrupts == 1

\* for (let i = 0; i < 30; i++)
MaxPolls == 30

\* stepCountIs(10)
StepCeiling == 10

\* ------------------------------------------------------------- input sets

Paths == {"a.txt", "b.txt"}

Contents == {"1", "2", "x"}

Commands == {"ls", "build"}

\* What `curl -w %{http_code}` can print for localhost:3000.
HttpCodes == {"200", "404", "500"}

EmptyMap == [p \in {} |-> "1"]

\* The files the sandbox template comes with (of the paths of interest).
TemplateFiles == [p \in {"a.txt"} |-> "0"]

File(p, c) == [path |-> p, content |-> c]

\* The `files` arguments of createOrUpdateFiles the model may send.
FileLists ==
    { <<File("a.txt", "1")>>,
      <<File("a.txt", "2"), File("b.txt", "x")>>,
      <<File("a.txt", "1"), File("a.txt", "2")>> }

\* The `files` arguments of readFiles / readFile.
ReadLists == { <<"a.txt">>, <<"a.txt", "b.txt">> }

\* Tokens of a text: the two spellings of the opening tag the /i flag
\* accepts, the closing tag, white space, and words.
OpenTags == {"<task_summary>", "<TASK_SUMMARY>"}

CloseTags == {"</task_summary>"}

WhiteSpace == {" "}

\* The summaries finalizeTask may be given after schema validation
\* (z.string().min(1)): at least one character, possibly only white space.
FinalizeArgs ==
    { <<"Added", " ", "login", " ", "page", " ">>,
      <<" ">> }

\* The texts a model turn may carry.
Texts ==
    { <<"Working">>,
      <<"Done!", " ", "<task_summary>", "Something", " ", "else", "</task_summary>">>,
      <<"<TASK_SUMMARY>", " ", "Refactored", " ", "</task_summary>", "</task_summary>">>,
      <<"</task_summary>", "<task_summary>", " ", "</task_summary>">> }

\* ----------------------------------------------------------- pure helpers

Min(S) == CHOOSE x \in S : \A y \in S : x <= y

\* String.prototype.trim on a token sequence.
RECURSIVE TrimLeft(_)
TrimLeft(s) ==
    IF s # <<>> /\ Head(s) \in WhiteSpace THEN TrimLeft(Tail(s)) ELSE s

RECURSIVE TrimRight(_)
TrimRight(s) ==
    IF s # <<>> /\ s[Len(s)] \in WhiteSpace
    THEN TrimRight(SubSeq(s, 1, Len(s) - 1))
    ELSE s

Trim(s) == TrimRight(TrimLeft(s))

\* A value of type string | undefined | null.
Undefined == [def |-> FALSE, val |-> <<>>]

Str(s) == [def |-> TRUE, val |-> s]

\* JavaScript truthiness of such a value: defined and not the empty string.
Truthy(v) == v.def /\ v.val # <<>>

\* text.match(/<task_summary>([\s\S]*?)<\/task_summary>/i): the leftmost
\* opening tag that has a closing tag after it, up to the first such closing
\* tag; the captured group trimmed, or null.
extractTaskSummary(text) ==
    LET opens  == {k \in 1..Len(text) : text[k] \in OpenTags}
        closes == {k \in 1..Len(text) : text[k] \in CloseTags}
        starts == {o \in opens : \E c \in closes : c > o}
    IN  IF starts = {} THEN Undefined
        ELSE LET o == Min(starts)
                 c == Min({k \in closes : k > o})
             IN  Str(Trim(SubSeq(text, o + 1, c - 1)))

\* const code = res.stdout.trim(); return code === "200" || code === "404"
isServerUp(code) == code \in {"200", "404"}

\* updatedFiles[file.path] = file.content
Put(m, p, c) == [q \in (DOMAIN m) \cup {p} |-> IF q = p THEN c ELSE m[q]]

\* The loop body of createOrUpdateFiles over a list of files that were all
\* written.
RECURSIVE WriteAll(_, _)
WriteAll(m, files) ==
    IF files = <<>> THEN m
    ELSE WriteAll(Put(m, Head(files).path, Head(files).content), Tail(files))

\* The name each tool's execute gives to step.run.
StepName(tool) ==
    CASE tool = "terminal"            -> "terminal"
      [] tool = "readFiles"           -> "read-files"
      [] tool = "createOrUpdateFiles" -> "create-or-update-files"
      [] tool = "readFile"            -> "read-files"
      [] tool = "startDevServer"      -> "start-dev-server"
      [] tool = "checkServerStatus"   -> "check-server-status"
      [] tool = "finalizeTask"        -> "finalize-task"

\* A tool result. kind "text": a string (token sequence `text`); kind
\* "object": the { updatedFiles } object; kind "invalid": the validation
\* error the SDK reports for arguments that fail the inputSchema.
TextResult(t) == [kind |-> "text", text |-> t, files |-> EmptyMap]

ObjectResult(m) == [kind |-> "object", text |-> <<>>, files |-> m]

InvalidResult == [kind |-> "invalid", text |-> <<>>, files |-> EmptyMap]

\* `Error: ${err}`
ErrorText(cause) == TextResult(<<"Error: ", cause>>)

IsErrorText(r) == r.kind = "text" /\ r.text # <<>> /\ r.text[1] = "Error: "

\* JSON.stringify(contents) for the files read, as tokens: path, content, ...
RECURSIVE ReadAll(_, _)
ReadAll(fs, paths) ==
    IF paths = <<>> THEN <<>>
    ELSE <<Head(paths), fs[Head(paths)]>> \o ReadAll(fs, Tail(paths))

\* ------------------------------------------------------------------ state

VARIABLES
    pc,                  \* position of the function body
    failure,             \* the exception that escaped the function, or "none"
    result,              \* the returned record, once returned
    tools,               \* the tools the model of this run makes use of
    stepLog,             \* durable: the committed step records (name, outcome)
    actionRuns,          \* durable history: times each step's action body ran
    sandboxFiles,        \* the remote sandbox's files (paths of interest)
    interrupts,          \* interruptions so far
    sandboxId,           \* const sandboxId
    sandboxUrl,          \* const sandboxUrl
    i,                   \* the poll loop's counter
    ret,                 \* the value the ensure-dev-server closure returns
    probeLog,            \* results of the isServerUp() calls of this execution
    polls,               \* isServerUp() calls made inside the poll loop
    installs,            \* install commands run by the prober
    launches,            \* launch commands run by the prober
    updatedFiles,        \* const updatedFiles: Record<string, string>
    summary,             \* let summary: string | undefined
    taskSummaryAchieved, \* let taskSummaryAchieved = false
    steps,               \* model turns (steps) completed by generateText
    turnText,            \* result.text of the current turn
    nToolCalls,          \* number of tool calls the current turn carries
    nToolResults,        \* number of them dispatched, their result recorded
    finalizeCalled,      \* the current turn has a call of finalizeTask
    lastCall,            \* the call dispatched last in the current turn
    lastResult,          \* and the result recorded for it
    beforeCall,          \* history: updatedFiles when lastCall was dispatched
    thrownAt             \* history: where lastCall's action threw (0: not)

durable == <<stepLog, actionRuns, sandboxFiles>>

provision == <<sandboxId, sandboxUrl>>

prober == <<i, ret, probeLog, polls, installs, launches>>

memory == <<updatedFiles, summary, taskSummaryAchieved>>

turn == <<turnText, nToolCalls, nToolResults, finalizeCalled, lastCall,
          lastResult, beforeCall, thrownAt>>

agent == <<memory, steps, turn>>

vars == <<pc, failure, result, tools, interrupts, durable, provision, prober,
          agent>>

StepNames ==
    { "get-sandbox-id", "get-sandbox-url", "ensure-dev-server", "terminal",
      "read-files", "create-or-update-files", "start-dev-server",
      "check-server-status", "finalize-task" }

NoResult == [returned |-> FALSE, files |-> EmptyMap, summary |-> Undefined,
             sandboxUrl |-> "none"]

\* A tool call: the tool's name, whether the arguments pass its inputSchema,
\* and the arguments.
Call(tool, valid, args) ==
    [tool |-> tool, valid |-> valid, cmd |-> args.cmd, files |-> args.files,
     paths |-> args.paths, install |-> args.install, summary |-> args.summary]

NoArgs == [cmd |-> "", files |-> <<>>, paths |-> <<>>, install |-> TRUE,
           summary |-> <<>>]

NoCall == Call("none", FALSE, NoArgs)

NoToolResult == [kind |-> "none", text |-> <<>>, files |-> EmptyMap]

\* The model of a run uses the tools of one of these groups.
ToolGroups ==
    { {"createOrUpdateFiles", "finalizeTask"},
      {"terminal", "readFiles", "readFile"},
      {"startDevServer", "checkServerStatus"} }

Init ==
    /\ pc = "get-sandbox-id"
    /\ failure = "none"
    /\ result = NoResult
    /\ tools \in ToolGroups
    /\ stepLog = {}
    /\ actionRuns = [n \in StepNames |-> 0]
    /\ sandboxFiles = TemplateFiles
    /\ interrupts = 0
    /\ sandboxId = "none"
    /\ sandboxUrl = "none"
    /\ i = 0
    /\ ret = "none"
    /\ probeLog = <<>>
    /\ polls = 0
    /\ installs = 0
    /\ launches = 0
    /\ updatedFiles = EmptyMap
    /\ summary = Undefined
    /\ taskSummaryAchieved = FALSE
    /\ steps = 0
    /\ turnText = <<>>
    /\ nToolCalls = 0
    /\ nToolResults = 0
    /\ finalizeCalled = FALSE
    /\ lastCall = NoCall
    /\ lastResult = NoToolResult
    /\ beforeCall = EmptyMap
    /\ thrownAt = 0

\* ------------------------------------------------- the durable step log

\* A step outcome: a string (provisioning, prober) or a tool result.
StrOutcome(s) == TextResult(<<s>>)

Committed(name) == \E r \in stepLog : r.name = name

Outcome(name) == (CHOOSE r \in stepLog : r.name = name).outcome

\* The action of step `name` is invoked.
Invoke(name) == actionRuns' = [actionRuns EXCEPT ![name] = @ + 1]

\* The action of step `name` returned `outcome`: one step record is committed.
Commit(name, outcome) ==
    stepLog' = stepLog \cup {[name |-> name, outcome |-> outcome]}

\* step.run(name, action) when no record of `name` exists and the action,
\* run now, returned `outcome`.
RunAndCommit(name, outcome) ==
    /\ Invoke(name)
    /\ Commit(name, outcome)

\* step.run(name, action) when the action, run now, threw: nothing is
\* committed and the exception goes to the caller.
RunAndThrow(name) ==
    /\ Invoke(name)
    /\ stepLog' = stepLog

\* step.run(name, action) when a record of `name` exists: its outcome is
\* returned and the action is not run.
Replay == UNCHANGED <<stepLog, actionRuns>>

\* The exception leaves the function body.
Escape(cause) ==
    /\ pc' = "failed"
    /\ failure' = cause

\* ---------------------------------------------------------- provisioning

\* GetSandboxId with Sandbox.create called directly, not through step.run.
GetSandboxId_Unwrapped ==
    /\ pc = "get-sandbox-id"
    /\ \/ /\ RunAndCommit("get-sandbox-id", StrOutcome("sbx"))
          /\ sandboxId' = "sbx"
          /\ pc' = "get-sandbox-url"
          /\ UNCHANGED failure
       \/ /\ RunAndThrow("get-sandbox-id")
          /\ Escape("get-sandbox-id: Sandbox.create")
          /\ UNCHANGED sandboxId
    /\ UNCHANGED <<result, tools, sandboxFiles, interrupts, sandboxUrl, prober,
                   agent>>

\* const sandboxId = await step.run("get-sandbox-id", ...)
GetSandboxId ==
    /\ pc = "get-sandbox-id"
    /\ IF Committed("get-sandbox-id")
       THEN /\ Replay
            /\ sandboxId' = Outcome("get-sandbox-id").text[1]
            /\ pc' = "get-sandbox-url"
            /\ UNCHANGED failure
       ELSE \/ /\ RunAndCommit("get-sandbox-id", StrOutcome("sbx"))
               /\ sandboxId' = "sbx"
               /\ pc' = "get-sandbox-url"
               /\ UNCHANGED failure
            \/ /\ RunAndThrow("get-sandbox-id")
               /\ Escape("get-sandbox-id: Sandbox.create")
               /\ UNCHANGED sandboxId
    /\ UNCHANGED <<result, tools, sandboxFiles, interrupts, sandboxUrl, prober, agent>>

\* GetSandboxUrl with the exception of the step caught and ignored.
GetSandboxUrl_Swallow ==
    /\ pc = "get-sandbox-url"
    /\ IF Committed("get-sandbox-url")
       THEN /\ Replay
            /\ sandboxUrl' = Outcome("get-sandbox-url").text[1]
       ELSE \/ /\ RunAndCommit("get-sandbox-url", StrOutcome("https://host"))
               /\ sandboxUrl' = "https://host"
            \/ /\ RunAndThrow("get-sandbox-url")
               /\ UNCHANGED sandboxUrl
    /\ pc' = "ensure-dev-server"
    /\ UNCHANGED <<failure, result, tools, sandboxFiles, interrupts, sandboxId,
                   prober, agent>>

\* const sandboxUrl = await step.run("get-sandbox-url", ...)
GetSandboxUrl ==
    /\ pc = "get-sandbox-url"
    /\ IF Committed("get-sandbox-url")
       THEN /\ Replay
            /\ sandboxUrl' = Outcome("get-sandbox-url").text[1]
            /\ pc' = "ensure-dev-server"
            /\ UNCHANGED failure
       ELSE \/ /\ RunAndCommit("get-sandbox-url", StrOutcome("https://host"))
               /\ sandboxUrl' = "https://host"
               /\ pc' = "ensure-dev-server"
               /\ UNCHANGED failure
            \/ /\ RunAndThrow("get-sandbox-url")
               /\ Escape("get-sandbox-url: getSandbox")
               /\ UNCHANGED sandboxUrl
    /\ UNCHANGED <<result, tools, sandboxFiles, interrupts, sandboxId, prober, agent>>

\* ------------------------------------------- the ensure-dev-server step

\* await step.run("ensure-dev-server", async () => {
\*   const sandbox = await getSandbox(sandboxId);
EnsureDevServer ==
    /\ pc = "ensure-dev-server"
    /\ IF Committed("ensure-dev-server")
       THEN /\ Replay
            /\ pc' = "generate"
            /\ UNCHANGED failure
       ELSE /\ RunAndThrow("ensure-dev-server")
            /\ \/ /\ pc' = "probe"
                  /\ UNCHANGED failure
               \/ Escape("ensure-dev-server: getSandbox")
    /\ UNCHANGED <<result, tools, sandboxFiles, interrupts, provision, prober, agent>>

\* InitialProbe without the early return: the bootstrap follows a probe that
\* found the server up.
InitialProbe_NoEarlyReturn ==
    /\ pc = "probe"
    /\ \/ \E code \in HttpCodes :
            /\ probeLog' = Append(probeLog, isServerUp(code))
            /\ ret' = ret
            /\ pc' = "install"
            /\ UNCHANGED failure
       \/ /\ Escape("ensure-dev-server: isServerUp")
          /\ UNCHANGED <<probeLog, ret>>
    /\ UNCHANGED <<result, tools, durable, interrupts, provision, i, polls,
                   installs, launches, agent>>

\* if (await isServerUp()) return "up";   -- outside the try block
InitialProbe ==
    /\ pc = "probe"
    /\ \/ \E code \in HttpCodes :
            /\ probeLog' = Append(probeLog, isServerUp(code))
            /\ IF isServerUp(code)
               THEN ret' = "up" /\ pc' = "ensure-return"
               ELSE ret' = ret /\ pc' = "install"
            /\ UNCHANGED failure
       \/ /\ Escape("ensure-dev-server: isServerUp")
          /\ UNCHANGED <<probeLog, ret>>
    /\ UNCHANGED <<result, tools, durable, interrupts, provision, i, polls, installs,
                   launches, agent>>

\* try { await sandbox.commands.run('... pnpm i ...')
Install ==
    /\ pc = "install"
    /\ installs' = installs + 1
    /\ \/ pc' = "launch" /\ ret' = ret
       \/ pc' = "ensure-return" /\ ret' = "Error: SandboxError"
    /\ UNCHANGED <<failure, result, tools, durable, interrupts, provision, i,
                   probeLog, polls, launches, agent>>

\* await sandbox.commands.run('... nohup pnpm dev ...'); for (let i = 0; ...
Launch ==
    /\ pc = "launch"
    /\ launches' = launches + 1
    /\ \/ pc' = "poll" /\ ret' = ret /\ i' = 0
       \/ pc' = "ensure-return" /\ ret' = "Error: SandboxError" /\ i' = i
    /\ UNCHANGED <<failure, result, tools, durable, interrupts, provision, probeLog,
                   polls, installs, agent>>

\* Poll returning "up" where the code returns "started".
Poll_Mislabel ==
    /\ pc = "poll"
    /\ i < MaxPolls
    /\ polls' = polls + 1
    /\ \/ \E code \in HttpCodes :
            /\ probeLog' = Append(probeLog, isServerUp(code))
            /\ IF isServerUp(code)
               THEN ret' = "up" /\ pc' = "ensure-return" /\ i' = i
               ELSE ret' = ret /\ pc' = "poll" /\ i' = i + 1
       \/ /\ ret' = "Error: SandboxError"
          /\ pc' = "ensure-return"
          /\ UNCHANGED <<probeLog, i>>
    /\ UNCHANGED <<failure, result, tools, durable, interrupts, provision,
                   installs, launches, agent>>

\* Poll with the loop condition i <= 30.
Poll_OffByOne ==
    /\ pc = "poll"
    /\ i <= MaxPolls
    /\ polls' = polls + 1
    /\ \/ \E code \in HttpCodes :
            /\ probeLog' = Append(probeLog, isServerUp(code))
            /\ IF isServerUp(code)
               THEN ret' = "started" /\ pc' = "ensure-return" /\ i' = i
               ELSE ret' = ret /\ pc' = "poll" /\ i' = i + 1
       \/ /\ ret' = "Error: SandboxError"
          /\ pc' = "ensure-return"
          /\ UNCHANGED <<probeLog, i>>
    /\ UNCHANGED <<failure, result, tools, durable, interrupts, provision,
                   installs, launches, agent>>

\* i < 30: if (await isServerUp()) return "started"; await sleep; i++
Poll ==
    /\ pc = "poll"
    /\ i < MaxPolls
    /\ polls' = polls + 1
    /\ \/ \E code \in HttpCodes :
            /\ probeLog' = Append(probeLog, isServerUp(code))
            /\ IF isServerUp(code)
               THEN ret' = "started" /\ pc' = "ensure-return" /\ i' = i
               ELSE ret' = ret /\ pc' = "poll" /\ i' = i + 1
       \/ /\ ret' = "Error: SandboxError"
          /\ pc' = "ensure-return"
          /\ UNCHANGED <<probeLog, i>>
    /\ UNCHANGED <<failure, result, tools, durable, interrupts, provision, installs,
                   launches, agent>>

\* the loop ends with i = 30: return "timeout"
PollExhausted ==
    /\ pc = "poll"
    /\ ~(i < MaxPolls)
    /\ ret' = "timeout"
    /\ pc' = "ensure-return"
    /\ UNCHANGED <<failure, result, tools, durable, interrupts, provision, i,
                   probeLog, polls, installs, launches, agent>>

\* EnsureReturn with a timeout treated as fatal: the function throws instead
\* of going on to generateText.
EnsureReturn_ThrowOnTimeout ==
    /\ pc = "ensure-return"
    /\ Commit("ensure-dev-server", StrOutcome(ret))
    /\ IF ret = "timeout"
       THEN Escape("ensure-dev-server: timeout")
       ELSE pc' = "generate" /\ UNCHANGED failure
    /\ i' = 0
    /\ ret' = "none"
    /\ probeLog' = <<>>
    /\ polls' = 0
    /\ installs' = 0
    /\ launches' = 0
    /\ UNCHANGED <<result, tools, actionRuns, sandboxFiles, interrupts,
                   provision, agent>>

\* The closure returned `ret`: the step commits it, and the closure's locals
\* (and the counts kept of this execution of it) are gone.
EnsureReturn ==
    /\ pc = "ensure-return"
    /\ Commit("ensure-dev-server", StrOutcome(ret))
    /\ pc' = "generate"
    /\ i' = 0
    /\ ret' = "none"
    /\ probeLog' = <<>>
    /\ polls' = 0
    /\ installs' = 0
    /\ launches' = 0
    /\ UNCHANGED <<failure, result, tools, actionRuns, sandboxFiles,
                   interrupts,
                   provision, agent>>

\* ------------------------------------------------------ the agent loop

\* One call of the model by generateText: it answers with a text and some
\* tool calls, or the call throws. The arguments of a call are drawn when it
\* is dispatched: the model's choice is unconstrained, so the runs are those
\* of drawing them here.
ModelTurn ==
    /\ pc = "generate"
    /\ \/ \E text \in Texts, n \in 0..MaxCalls :
            /\ turnText' = text
            /\ nToolCalls' = n
            /\ nToolResults' = 0
            /\ finalizeCalled' = FALSE
            /\ lastCall' = NoCall
            /\ lastResult' = NoToolResult
            /\ beforeCall' = EmptyMap
            /\ thrownAt' = 0
            /\ pc' = IF n = 0 THEN "hook" ELSE "tools"
            /\ UNCHANGED failure
       \/ /\ Escape("generateText")
          /\ UNCHANGED turn
    /\ UNCHANGED <<result, tools, durable, interrupts, provision, prober,
                   memory, steps>>

\* A tool call may be dispatched: the turn has calls left.
Dispatching(tool) ==
    /\ pc = "tools"
    /\ nToolResults < nToolCalls
    /\ tool \in tools

\* The result of a call is recorded; after the last call of the turn the
\* step is finished.
Record(call, res, thrown) ==
    /\ lastCall' = call
    /\ lastResult' = res
    /\ beforeCall' = updatedFiles
    /\ thrownAt' = thrown
    /\ nToolResults' = nToolResults + 1
    /\ finalizeCalled' = (finalizeCalled \/ call.tool = "finalizeTask")
    /\ pc' = IF nToolResults + 1 = nToolCalls THEN "hook" ELSE "tools"
    /\ UNCHANGED <<turnText, nToolCalls>>

\* result.stdout of a command that ran.
Stdout(cmd) == TextResult(<<"stdout of ", cmd>>)

\* `Command failed: ${err} \n stdout: ${buffers.stdout} \n stderr: ...`
CommandFailed ==
    TextResult(<<"Command failed: ", "SandboxError", " \n stdout: ", "",
                 " \n stderr: ", "">>)

\* tools.terminal.execute
terminal ==
    /\ Dispatching("terminal")
    /\ \E cmd \in Commands :
         LET step == StepName("terminal")
             call == Call("terminal", TRUE, [NoArgs EXCEPT !.cmd = cmd])
         IN  IF Committed(step)
             THEN Replay /\ Record(call, Outcome(step), 0)
             ELSE \/ /\ RunAndCommit(step, Stdout(cmd))
                     /\ Record(call, Stdout(cmd), 0)
                  \/ /\ RunAndCommit(step, CommandFailed)
                     /\ Record(call, CommandFailed, 1)
    /\ UNCHANGED <<failure, result, tools, sandboxFiles, interrupts, provision,
                   prober, memory, steps>>

\* The action of the step "read-files": every file is read, or a read (of a
\* file that does not exist, or for another reason) or the connection throws.
ReadOutcomes(paths) ==
    {ErrorText("SandboxError")} \cup
    (IF \A k \in 1..Len(paths) : paths[k] \in DOMAIN sandboxFiles
     THEN {TextResult(ReadAll(sandboxFiles, paths))}
     ELSE {})

\* tools.readFiles.execute
readFiles ==
    /\ Dispatching("readFiles")
    /\ \E paths \in ReadLists :
         LET step == StepName("readFiles")
             call == Call("readFiles", TRUE, [NoArgs EXCEPT !.paths = paths])
         IN  IF Committed(step)
             THEN Replay /\ Record(call, Outcome(step), 0)
             ELSE \E res \in ReadOutcomes(paths) :
                     /\ RunAndCommit(step, res)
                     /\ Record(call, res, IF IsErrorText(res) THEN 1 ELSE 0)
    /\ UNCHANGED <<failure, result, tools, sandboxFiles, interrupts, provision,
                   prober, memory, steps>>

\* tools.readFile.execute
readFile ==
    /\ Dispatching("readFile")
    /\ \E paths \in ReadLists :
         LET step == StepName("readFile")
             call == Call("readFile", TRUE, [NoArgs EXCEPT !.paths = paths])
         IN  IF Committed(step)
             THEN Replay /\ Record(call, Outcome(step), 0)
             ELSE \E res \in ReadOutcomes(paths) :
                     /\ RunAndCommit(step, res)
                     /\ Record(call, res, IF IsErrorText(res) THEN 1 ELSE 0)
    /\ UNCHANGED <<failure, result, tools, sandboxFiles, interrupts, provision,
                   prober, memory, steps>>

\* createOrUpdateFiles recording a file before it is written: the file whose
\* write throws is in the map.
createOrUpdateFiles_RecordFirst ==
    /\ Dispatching("createOrUpdateFiles")
    /\ \E files \in FileLists :
         LET step == StepName("createOrUpdateFiles")
             n    == Len(files)
             call == Call("createOrUpdateFiles", TRUE,
                          [NoArgs EXCEPT !.files = files])
         IN  IF Committed(step)
             THEN /\ Replay
                  /\ Record(call, Outcome(step), 0)
                  /\ UNCHANGED <<updatedFiles, sandboxFiles>>
             ELSE \E f \in 1..(n + 1) :
                     LET done == SubSeq(files, 1, f - 1)
                         seen == SubSeq(files, 1, IF f = n + 1 THEN n ELSE f)
                         map  == WriteAll(updatedFiles, seen)
                         res  == IF f = n + 1
                                 THEN ObjectResult(map)
                                 ELSE ErrorText("SandboxError")
                     IN  /\ sandboxFiles' = WriteAll(sandboxFiles, done)
                         /\ updatedFiles' = map
                         /\ RunAndCommit(step, res)
                         /\ Record(call, res, IF f = n + 1 THEN 0 ELSE f)
    /\ UNCHANGED <<failure, result, tools, interrupts, provision, prober,
                   summary, taskSummaryAchieved, steps>>

\* createOrUpdateFiles recording all files of the call before writing them.
createOrUpdateFiles_RecordAll ==
    /\ Dispatching("createOrUpdateFiles")
    /\ \E files \in FileLists :
         LET step == StepName("createOrUpdateFiles")
             n    == Len(files)
             call == Call("createOrUpdateFiles", TRUE,
                          [NoArgs EXCEPT !.files = files])
         IN  IF Committed(step)
             THEN /\ Replay
                  /\ Record(call, Outcome(step), 0)
                  /\ UNCHANGED <<updatedFiles, sandboxFiles>>
             ELSE \E f \in 1..(n + 1) :
                     LET done == SubSeq(files, 1, f - 1)
                         map  == WriteAll(updatedFiles, files)
                         res  == IF f = n + 1
                                 THEN ObjectResult(map)
                                 ELSE ErrorText("SandboxError")
                     IN  /\ sandboxFiles' = WriteAll(sandboxFiles, done)
                         /\ updatedFiles' = map
                         /\ RunAndCommit(step, res)
                         /\ Record(call, res, IF f = n + 1 THEN 0 ELSE f)
    /\ UNCHANGED <<failure, result, tools, interrupts, provision, prober,
                   summary, taskSummaryAchieved, steps>>

\* tools.createOrUpdateFiles.execute. In the action, `f` is where it throws:
\* k in the write of the k-th file (or, for k = 1, in getSandbox before it),
\* Len(files) + 1 nowhere.
createOrUpdateFiles ==
    /\ Dispatching("createOrUpdateFiles")
    /\ \E files \in FileLists :
         LET step == StepName("createOrUpdateFiles")
             n    == Len(files)
             call == Call("createOrUpdateFiles", TRUE,
                          [NoArgs EXCEPT !.files = files])
         IN  IF Committed(step)
             THEN /\ Replay
                  /\ Record(call, Outcome(step), 0)
                  /\ UNCHANGED <<updatedFiles, sandboxFiles>>
             ELSE \E f \in 1..(n + 1) :
                     LET done == SubSeq(files, 1, f - 1)
                         map  == WriteAll(updatedFiles, done)
                         res  == IF f = n + 1
                                 THEN ObjectResult(map)
                                 ELSE ErrorText("SandboxError")
                     IN  /\ sandboxFiles' = WriteAll(sandboxFiles, done)
                         /\ updatedFiles' = map
                         /\ RunAndCommit(step, res)
                         /\ Record(call, res, IF f = n + 1 THEN 0 ELSE f)
    /\ UNCHANGED <<failure, result, tools, interrupts, provision, prober,
                   summary, taskSummaryAchieved, steps>>

\* tools.startDevServer.execute
startDevServer ==
    /\ Dispatching("startDevServer")
    /\ \E install \in BOOLEAN :
         LET step == StepName("startDevServer")
             call == Call("startDevServer", TRUE,
                          [NoArgs EXCEPT !.install = install])
         IN  IF Committed(step)
             THEN Replay /\ Record(call, Outcome(step), 0)
             ELSE \E res \in { TextResult(<<"Started dev server with PID ", "4242">>),
                               ErrorText("SandboxError") } :
                     /\ RunAndCommit(step, res)
                     /\ Record(call, res, IF IsErrorText(res) THEN 1 ELSE 0)
    /\ UNCHANGED <<failure, result, tools, sandboxFiles, interrupts, provision,
                   prober, memory, steps>>

\* checkServerStatus with a catch block that returns nothing.
checkServerStatus_NoReturnInCatch ==
    /\ Dispatching("checkServerStatus")
    /\ LET step == StepName("checkServerStatus")
           call == Call("checkServerStatus", TRUE, NoArgs)
       IN  IF Committed(step)
           THEN Replay /\ Record(call, Outcome(step), 0)
           ELSE \/ \E code \in HttpCodes :
                     /\ RunAndCommit(step, TextResult(<<"HTTP ", code>>))
                     /\ Record(call, TextResult(<<"HTTP ", code>>), 0)
                \/ /\ RunAndCommit(step, NoToolResult)
                   /\ Record(call, NoToolResult, 1)
    /\ UNCHANGED <<failure, result, tools, sandboxFiles, interrupts, provision,
                   prober, memory, steps>>

\* tools.checkServerStatus.execute
checkServerStatus ==
    /\ Dispatching("checkServerStatus")
    /\ LET step == StepName("checkServerStatus")
           call == Call("checkServerStatus", TRUE, NoArgs)
       IN  IF Committed(step)
           THEN Replay /\ Record(call, Outcome(step), 0)
           ELSE \E res \in { TextResult(<<"HTTP ", code>>) : code \in HttpCodes }
                           \cup {ErrorText("SandboxError")} :
                   /\ RunAndCommit(step, res)
                   /\ Record(call, res, IF IsErrorText(res) THEN 1 ELSE 0)
    /\ UNCHANGED <<failure, result, tools, sandboxFiles, interrupts, provision,
                   prober, memory, steps>>

\* finalizeTask without the trim().
finalizeTask_NoTrim ==
    /\ Dispatching("finalizeTask")
    /\ \E providedSummary \in FinalizeArgs :
         LET step == StepName("finalizeTask")
             call == Call("finalizeTask", TRUE,
                          [NoArgs EXCEPT !.summary = providedSummary])
         IN  IF Committed(step)
             THEN /\ Replay
                  /\ Record(call, Outcome(step), 0)
                  /\ UNCHANGED <<summary, taskSummaryAchieved>>
             ELSE /\ summary' = Str(providedSummary)
                  /\ taskSummaryAchieved' = Truthy(summary')
                  /\ RunAndCommit(step, TextResult(<<"OK">>))
                  /\ Record(call, TextResult(<<"OK">>), 0)
    /\ UNCHANGED <<failure, result, tools, sandboxFiles, interrupts, provision,
                   prober, updatedFiles, steps>>

\* finalizeTask setting the flag to true whatever the trimmed summary is.
finalizeTask_FlagAlways ==
    /\ Dispatching("finalizeTask")
    /\ \E providedSummary \in FinalizeArgs :
         LET step == StepName("finalizeTask")
             call == Call("finalizeTask", TRUE,
                          [NoArgs EXCEPT !.summary = providedSummary])
         IN  IF Committed(step)
             THEN /\ Replay
                  /\ Record(call, Outcome(step), 0)
                  /\ UNCHANGED <<summary, taskSummaryAchieved>>
             ELSE /\ summary' = Str(Trim(providedSummary))
                  /\ taskSummaryAchieved' = TRUE
                  /\ RunAndCommit(step, TextResult(<<"OK">>))
                  /\ Record(call, TextResult(<<"OK">>), 0)
    /\ UNCHANGED <<failure, result, tools, sandboxFiles, interrupts, provision,
                   prober, updatedFiles, steps>>

\* tools.finalizeTask.execute
finalizeTask ==
    /\ Dispatching("finalizeTask")
    /\ \E providedSummary \in FinalizeArgs :
         LET step == StepName("finalizeTask")
             call == Call("finalizeTask", TRUE,
                          [NoArgs EXCEPT !.summary = providedSummary])
         IN  IF Committed(step)
             THEN /\ Replay
                  /\ Record(call, Outcome(step), 0)
                  /\ UNCHANGED <<summary, taskSummaryAchieved>>
             ELSE /\ summary' = Str(Trim(providedSummary))
                  /\ taskSummaryAchieved' = Truthy(summary')
                  /\ RunAndCommit(step, TextResult(<<"OK">>))
                  /\ Record(call, TextResult(<<"OK">>), 0)
    /\ UNCHANGED <<failure, result, tools, sandboxFiles, interrupts, provision,
                   prober, updatedFiles, steps>>

\* A call whose arguments fail the tool's inputSchema: execute is not run,
\* the validation error is the call's result.
InvalidToolCall ==
    /\ pc = "tools"
    /\ nToolResults < nToolCalls
    /\ \E tool \in tools : Record(Call(tool, FALSE, NoArgs), InvalidResult, 0)
    /\ UNCHANGED <<failure, result, tools, durable, interrupts, provision,
                   prober, memory, steps>>

\* onStepFinish without the `!summary` test.
onStepFinish_Overwrite ==
    /\ pc = "hook"
    /\ LET maybeSummary == extractTaskSummary(turnText)
       IN  IF Truthy(maybeSummary)
           THEN summary' = maybeSummary /\ taskSummaryAchieved' = TRUE
           ELSE UNCHANGED <<summary, taskSummaryAchieved>>
    /\ steps' = steps + 1
    /\ pc' = "stop"
    /\ UNCHANGED <<failure, result, tools, durable, interrupts, provision,
                   prober, updatedFiles, turn>>

\* onStepFinish: async (result) => { ... }
onStepFinish ==
    /\ pc = "hook"
    /\ LET maybeSummary == extractTaskSummary(turnText)
       IN  IF Truthy(maybeSummary) /\ ~Truthy(summary)
           THEN summary' = maybeSummary /\ taskSummaryAchieved' = TRUE
           ELSE UNCHANGED <<summary, taskSummaryAchieved>>
    /\ steps' = steps + 1
    /\ pc' = "stop"
    /\ UNCHANGED <<failure, result, tools, durable, interrupts, provision,
                   prober, updatedFiles, turn>>

\* stopWhen without stepCountIs(10).
stopWhen_NoCeiling ==
    \/ finalizeCalled
    \/ taskSummaryAchieved

\* stopWhen without `() => taskSummaryAchieved`.
stopWhen_NoFlag ==
    \/ steps = StepCeiling
    \/ finalizeCalled

\* stopWhen: [stepCountIs(10), hasToolCall("finalizeTask"),
\*            () => taskSummaryAchieved]
stopWhen ==
    \/ steps = StepCeiling
    \/ finalizeCalled
    \/ taskSummaryAchieved

\* After a step: generateText goes on to another model call (the step's
\* results now part of the messages) when the step had tool calls, all with
\* a result, and no stop condition holds; else it returns.
StopCheck ==
    /\ pc = "stop"
    /\ IF nToolCalls > 0 /\ nToolResults = nToolCalls /\ ~stopWhen
       THEN /\ pc' = "generate"
            /\ turnText' = <<>>
            /\ nToolCalls' = 0
            /\ nToolResults' = 0
            /\ finalizeCalled' = FALSE
            /\ lastCall' = NoCall
            /\ lastResult' = NoToolResult
            /\ beforeCall' = EmptyMap
            /\ thrownAt' = 0
       ELSE /\ pc' = "return"
            /\ UNCHANGED turn
    /\ UNCHANGED <<failure, result, tools, durable, interrupts, provision,
                   prober, memory, steps>>

\* return { title: "Fragment", files: updatedFiles, summary, sandboxUrl }
Return ==
    /\ pc = "return"
    /\ result' = [returned |-> TRUE, files |-> updatedFiles,
                  summary |-> summary, sandboxUrl |-> sandboxUrl]
    /\ pc' = "done"
    /\ UNCHANGED <<failure, tools, durable, interrupts, provision, prober,
                   agent>>

\* The execution is abandoned and the function body is entered again: what
\* it held in memory is gone, the step log is kept.
Interrupt ==
    /\ pc \notin {"done", "failed"}
    /\ interrupts < MaxInterrupts
    /\ interrupts' = interrupts + 1
    /\ pc' = "get-sandbox-id"
    /\ sandboxId' = "none"
    /\ sandboxUrl' = "none"
    /\ i' = 0
    /\ ret' = "none"
    /\ probeLog' = <<>>
    /\ polls' = 0
    /\ installs' = 0
    /\ launches' = 0
    /\ updatedFiles' = EmptyMap
    /\ summary' = Undefined
    /\ taskSummaryAchieved' = FALSE
    /\ steps' = 0
    /\ turnText' = <<>>
    /\ nToolCalls' = 0
    /\ nToolResults' = 0
    /\ finalizeCalled' = FALSE
    /\ lastCall' = NoCall
    /\ lastResult' = NoToolResult
    /\ beforeCall' = EmptyMap
    /\ thrownAt' = 0
    /\ UNCHANGED <<failure, result, tools, durable>>

Next ==
    \/ GetSandboxId
    \/ GetSandboxUrl
    \/ EnsureDevServer
    \/ InitialProbe
    \/ Install
    \/ Launch
    \/ Poll
    \/ PollExhausted
    \/ EnsureReturn
    \/ ModelTurn
    \/ terminal
    \/ readFiles
    \/ readFile
    \/ createOrUpdateFiles
    \/ startDevServer
    \/ checkServerStatus
    \/ finalizeTask
    \/ InvalidToolCall
    \/ onStepFinish
    \/ StopCheck
    \/ Return

\* An execution that is never interrupted.
Spec == Init /\ [][Next]_vars

NextResume == Next \/ Interrupt

\* An execution that may be interrupted and resumed.
SpecResume == Init /\ [][NextResume]_vars

\* ------------------------------------------------------------- the claims

\* A tool call was dispatched in this step.
Dispatched == nToolResults' = nToolResults + 1

\* C1: once a step's outcome is committed, its action is never invoked again
\* and its record never changes, also across an interruption and resumption:
\* a later step.run of that name gives back the committed outcome; a step
\* name has at most one committed outcome; sandbox creation runs once.
C1_CommittedStepRunsOnce ==
    /\ [][ /\ \A n \in StepNames :
                Committed(n) =>
                    /\ actionRuns'[n] = actionRuns[n]
                    /\ {r \in stepLog' : r.name = n} = {r \in stepLog : r.name = n}
           /\ \A r1, r2 \in stepLog' : r1.name = r2.name => r1 = r2
           /\ (pc = "get-sandbox-id" /\ Committed("get-sandbox-id") /\ pc' # pc)
                => sandboxId' = Outcome("get-sandbox-id").text[1]
           /\ (Dispatched /\ lastCall'.valid /\ Committed(StepName(lastCall'.tool)))
                => /\ lastResult' = Outcome(StepName(lastCall'.tool))
                   /\ thrownAt' = 0
         ]_vars
    /\ [](Committed("get-sandbox-id") => actionRuns["get-sandbox-id"] = 1)

\* C1's case: a resumed execution went through the committed step
\* "get-sandbox-id" again (the prober's record shows that the interruption
\* came after provisioning) and sandbox creation still ran once.
C1_Witness ==
    /\ interrupts = 1
    /\ pc = "get-sandbox-url"
    /\ Committed("ensure-dev-server")
    /\ sandboxId = "sbx"
    /\ actionRuns["get-sandbox-id"] = 1

\* C2: every write-files call that returns the file map leaves each path it
\* was given mapped to the content it gave (the later file of the call for a
\* path given twice) and every other path as it was; so after successive
\* successful calls the map holds exactly what they wrote, latest content
\* per path ({a.txt: "1"} then {a.txt: "2", b.txt: "x"} gives
\* {a.txt: "2", b.txt: "x"}).
C2_FileAccumulation ==
    [][ ( /\ Dispatched
          /\ lastCall'.tool = "createOrUpdateFiles"
          /\ lastCall'.valid
          /\ lastResult'.kind = "object" )
        => updatedFiles' = WriteAll(updatedFiles, lastCall'.files) ]_vars

\* The write-files call dispatched last threw in the write of a file.
WriteFailed ==
    /\ lastCall.tool = "createOrUpdateFiles"
    /\ lastCall.valid
    /\ thrownAt >= 1

\* The entry of path p is the same in maps m1 and m2.
SameEntry(m1, m2, p) ==
    /\ (p \in DOMAIN m1) = (p \in DOMAIN m2)
    /\ p \in DOMAIN m1 => m1[p] = m2[p]

\* C3 as claimed: when the write of some path throws, the tool returns an
\* error text, no exception escapes, and the file map has no new or changed
\* entry for the path whose write failed.
C3_FailedPathUnchanged ==
    WriteFailed =>
        /\ IsErrorText(lastResult)
        /\ failure = "none"
        /\ SameEntry(updatedFiles, beforeCall, lastCall.files[thrownAt].path)

\* C3 as amended: when the write of some path throws, the tool returns an
\* error text, no exception escapes, the loop goes on to the next turn unless
\* a stop condition holds, and the file map is the map of before the call
\* with the files written before the failing one: the failing write and the
\* files after it add and change nothing.
C3_FailedWriteNotRecorded ==
    /\ [](WriteFailed =>
            /\ IsErrorText(lastResult)
            /\ failure = "none"
            /\ pc \in {"tools", "hook", "stop", "return", "done"}
            /\ updatedFiles =
                 WriteAll(beforeCall, SubSeq(lastCall.files, 1, thrownAt - 1)))
    /\ [][ (WriteFailed /\ pc = "stop" /\ nToolResults = nToolCalls /\ ~stopWhen)
           => pc' = "generate" ]_vars

\* C3's case: the second file of a call failed to be written, the first is
\* recorded, the error text is the result and the turn is about to end.
C3_Witness ==
    /\ WriteFailed
    /\ thrownAt = 2
    /\ lastCall.files[1].path # lastCall.files[2].path
    /\ beforeCall = EmptyMap
    /\ updatedFiles = [p \in {"a.txt"} |-> "2"]
    /\ IsErrorText(lastResult)
    /\ pc = "stop"
    /\ ~stopWhen

\* C4: no execution of the loop makes more than 10 model turns; and when
\* the loop has ended after a turn that called tools, none of them
\* finalizeTask, and carried no summary marker (as every turn before it then
\* did), exactly 10 turns were made and the function returns its record,
\* with no summary.
C4_StepCeiling ==
    /\ steps <= StepCeiling
    /\ ( /\ pc \in {"return", "done"}
         /\ nToolCalls > 0
         /\ ~finalizeCalled
         /\ ~extractTaskSummary(turnText).def )
       => /\ steps = StepCeiling
          /\ ~summary.def
          /\ failure = "none"
    /\ pc = "done" =>
          /\ result.returned
          /\ result.summary = summary
          /\ result.files = updatedFiles

\* C4's case: ten turns of tool calls without a summary, and the record is
\* returned.
C4_Witness ==
    /\ pc = "done"
    /\ steps = StepCeiling
    /\ nToolCalls > 0
    /\ ~finalizeCalled
    /\ ~extractTaskSummary(turnText).def
    /\ result.returned
    /\ ~result.summary.def

\* C5: once the summary is a non-empty string it never changes: a summary
\* marker in the text of the same or of a later turn does not overwrite it.
C5_FirstSummaryWins ==
    [][Truthy(summary) => summary' = summary]_vars

\* C5's case: finalizeTask gave "Added login page", the text of the turn
\* carries a marker with another summary, and onStepFinish has run.
C5_Witness ==
    /\ pc = "stop"
    /\ finalizeCalled
    /\ summary = Str(<<"Added", " ", "login", " ", "page">>)
    /\ Truthy(extractTaskSummary(turnText))
    /\ extractTaskSummary(turnText) # summary

\* C6: when the first probe finds the server up, the closure returns "up"
\* and neither the install nor the launch command is run.
C6_UpWithoutBootstrap ==
    (probeLog # <<>> /\ probeLog[1]) =>
        /\ pc = "ensure-return"
        /\ ret = "up"
        /\ installs = 0
        /\ launches = 0
        /\ polls = 0

\* C6's case: the first probe answered 200 or 404.
C6_Witness ==
    /\ pc = "ensure-return"
    /\ probeLog = <<TRUE>>
    /\ ret = "up"

\* The probe results of this execution are k times false, then true.
FalseThenTrue(k) ==
    /\ Len(probeLog) = k + 1
    /\ probeLog[k + 1]
    /\ \A j \in 1..k : ~probeLog[j]

\* C7 as claimed: a probe that returns false k times and then true, with
\* k below the poll limit, gives "started" after exactly k + 1 probe calls
\* made after the bootstrap.
C7_StartedAfterKPlusOnePolls ==
    \A k \in 0..(MaxPolls - 1) :
        FalseThenTrue(k) => (ret = "started" /\ polls = k + 1)

\* C7 as amended: a probe that returns false k times and then true, with
\* k >= 1 below the poll limit, gives "started" after exactly k + 1 probe calls
\* in all: the one before the bootstrap and k after it (one install, one
\* launch); with k = 0 the outcome is "up".
C7_StartedAfterKPolls ==
    /\ \A k \in 1..(MaxPolls - 1) :
          FalseThenTrue(k) =>
              /\ pc = "ensure-return"
              /\ ret = "started"
              /\ polls = k
              /\ installs = 1
              /\ launches = 1
    /\ FalseThenTrue(0) => ret = "up"
    /\ Len(probeLog) <= MaxPolls + 1

\* C7's case: false three times (once before the bootstrap, twice after),
\* then true.
C7_Witness ==
    /\ FalseThenTrue(3)
    /\ ret = "started"
    /\ polls = 3
    /\ pc = "ensure-return"

\* Every probe of this execution returned false.
NeverUp == \A j \in 1..Len(probeLog) : ~probeLog[j]

\* C8: with a probe that never returns true the closure returns "timeout"
\* after exactly 30 polls that follow one bootstrap, polls no more, and
\* nothing is thrown.
C8_TimeoutAfterMaxPolls ==
    /\ polls <= MaxPolls
    /\ ret = "timeout" =>
          /\ NeverUp
          /\ polls = MaxPolls
          /\ Len(probeLog) = MaxPolls + 1
          /\ installs = 1
          /\ launches = 1
          /\ failure = "none"
          /\ pc = "ensure-return"
    /\ (NeverUp /\ Len(probeLog) = MaxPolls + 1) =>
          /\ pc \in {"poll", "ensure-return"}
          /\ pc = "ensure-return" => ret = "timeout"

\* C8's case: thirty polls answered false and "timeout" is returned.
C8_Witness ==
    /\ pc = "ensure-return"
    /\ ret = "timeout"
    /\ polls = MaxPolls
    /\ NeverUp

\* C9: no exception of a probe call or of a bootstrap command leaves the
\* "ensure-dev-server" step.
C9_ProberNeverThrows ==
    failure # "ensure-dev-server: isServerUp"

\* C10: the function fails only when a provisioning step failed.
C10_OnlyProvisioningFails ==
    pc = "failed" =>
        failure \in { "get-sandbox-id: Sandbox.create",
                      "get-sandbox-url: getSandbox" }

\* The action of the call dispatched last threw: a call of one of the five
\* tools that act on the sandbox.
ActionThrew ==
    /\ lastCall.tool \in { "terminal", "readFiles", "readFile",
                           "createOrUpdateFiles", "startDevServer",
                           "checkServerStatus" }
    /\ lastCall.valid
    /\ thrownAt >= 1

\* C11 as claimed: when the sandbox action of a tool throws, the tool's
\* result is the text "Error: <cause>" and no exception escapes.
C11_ErrorTextForm ==
    ActionThrew => (IsErrorText(lastResult) /\ failure = "none")

\* C11 as amended: when the sandbox action of a tool throws, the tool's
\* result is a text and no exception escapes; the text is "Error: <cause>"
\* for read-files, write-files, start-server and check-status, and
\* "Command failed: <cause> \n stdout: ... \n stderr: ..." for exec.
C11_ErrorTextPerTool ==
    ActionThrew =>
        /\ lastResult.kind = "text"
        /\ failure = "none"
        /\ pc \in {"tools", "hook", "stop", "return", "done"}
        /\ IF lastCall.tool = "terminal"
           THEN /\ Len(lastResult.text) = 6
                /\ lastResult.text[1] = "Command failed: "
                /\ lastResult.text[2] = "SandboxError"
                /\ lastResult.text[3] = " \n stdout: "
                /\ lastResult.text[5] = " \n stderr: "
           ELSE lastResult.text = <<"Error: ", "SandboxError">>

\* C11's case: the command of an exec call threw and the model is about to
\* be given the "Command failed: ..." text.
C11_Witness ==
    /\ ActionThrew
    /\ lastCall.tool = "terminal"
    /\ lastResult = CommandFailed
    /\ pc = "stop"
    /\ failure = "none"

\* A finalize call whose argument passes the schema was dispatched in this
\* step.
FinalizeDispatched ==
    /\ Dispatched
    /\ lastCall'.tool = "finalizeTask"
    /\ lastCall'.valid

\* C12 as claimed: every finalize call whose summary passes the schema
\* records the summary (trimmed), sets the flag to true and returns "OK".
C12_FinalizeSetsFlag ==
    [][ FinalizeDispatched =>
          /\ summary' = Str(Trim(lastCall'.summary))
          /\ taskSummaryAchieved' = TRUE
          /\ lastResult' = TextResult(<<"OK">>) ]_vars

\* C12 as amended: every finalize call whose summary passes the schema
\* returns "OK"; the first of the run records the trimmed summary and sets
\* the flag to whether the trimmed summary is non-empty; a later one changes
\* neither; so the action of finalize runs at most once in a run.
C12_FinalizeRecordsOnce ==
    /\ [][ FinalizeDispatched =>
             /\ lastResult' = TextResult(<<"OK">>)
             /\ IF Committed("finalize-task")
                THEN UNCHANGED <<summary, taskSummaryAchieved>>
                ELSE /\ summary' = Str(Trim(lastCall'.summary))
                     /\ taskSummaryAchieved' = (Trim(lastCall'.summary) # <<>>)
         ]_vars
    /\ [](actionRuns["finalize-task"] <= 1)

\* C12's case: two finalize calls in a turn, "Added login page " and then
\* " ": the first is recorded (trimmed) and the flag set, the second changed
\* nothing.
C12_Witness ==
    /\ pc = "stop"
    /\ nToolResults = 2
    /\ lastCall.tool = "finalizeTask"
    /\ lastCall.summary = <<" ">>
    /\ lastResult = TextResult(<<"OK">>)
    /\ summary = Str(<<"Added", " ", "login", " ", "page">>)
    /\ taskSummaryAchieved
    /\ actionRuns["finalize-task"] = 1

\* C13: every tool call runs under a step name that no earlier call of the
\* run has used: no record of that name is committed when the call is
\* dispatched, and the call's own action is executed.
C13_DistinctStepNames ==
    [][ (Dispatched /\ lastCall'.valid) =>
          /\ ~Committed(StepName(lastCall'.tool))
          /\ actionRuns'[StepName(lastCall'.tool)] =
                 actionRuns[StepName(lastCall'.tool)] + 1 ]_vars

\* The action of provisioning step n was run and threw: it ran and no
\* record of it was committed.
ProvisioningThrew(n) == actionRuns[n] > 0 /\ ~Committed(n)

\* The exception a provisioning step's action throws.
ProvisioningCause(n) ==
    IF n = "get-sandbox-id" THEN "get-sandbox-id: Sandbox.create"
    ELSE "get-sandbox-url: getSandbox"

\* C14: when the action of "get-sandbox-id" or of "get-sandbox-url" throws,
\* the function fails with that exception: the prober's step is not run, no
\* probe is made, the model is not called, no tool action is run, nothing is
\* returned, the failed action has run once only, and after the failure the
\* function does nothing more.
C14_ProvisioningFailureIsFatal ==
    /\ [](\A n \in {"get-sandbox-id", "get-sandbox-url"} :
            ProvisioningThrew(n) =>
                /\ pc = "failed"
                /\ failure = ProvisioningCause(n)
                /\ actionRuns[n] = 1
                /\ \A m \in StepNames \ {"get-sandbox-id", "get-sandbox-url"} :
                       actionRuns[m] = 0 /\ ~Committed(m)
                /\ probeLog = <<>>
                /\ steps = 0
                /\ turnText = <<>>
                /\ nToolCalls = 0
                /\ nToolResults = 0
                /\ ~result.returned)
    /\ [][pc # "failed"]_vars

\* C14's case: the sandbox was created and the resolution of its URL threw.
C14_Witness ==
    /\ ProvisioningThrew("get-sandbox-url")
    /\ Committed("get-sandbox-id")
    /\ pc = "failed"
    /\ failure = "get-sandbox-url: getSandbox"

\* The state of the controller's state machine at position p of the function.
Phase(p) ==
    CASE p \in {"get-sandbox-id", "get-sandbox-url"}        -> "PROVISIONING"
      [] p \in {"ensure-dev-server", "probe", "install",
                "launch", "poll", "ensure-return"}          -> "PROBING"
      [] p \in {"generate", "hook", "stop"}                 -> "CONVERSING"
      [] p = "tools"                                        -> "TOOL_DISPATCH"
      [] p \in {"return", "done"}                           -> "DONE"
      [] OTHER                                              -> "FAILED"

\* The moves of the state machine: PROVISIONING -> PROBING -> CONVERSING ->
\* (TOOL_DISPATCH -> CONVERSING)* -> DONE, and a failure from the states that
\* call out.
PhaseMoves ==
    { <<"PROVISIONING", "PROBING">>, <<"PROBING", "CONVERSING">>,
      <<"CONVERSING", "TOOL_DISPATCH">>, <<"TOOL_DISPATCH", "CONVERSING">>,
      <<"CONVERSING", "DONE">>,
      <<"PROVISIONING", "FAILED">>, <<"PROBING", "FAILED">>,
      <<"CONVERSING", "FAILED">> }

\* C15: the function moves through PROVISIONING, PROBING, CONVERSING,
\* (TOOL_DISPATCH, CONVERSING)*, DONE in this order; the model is called only
\* with both provisioning steps and the prober's step committed; a tool is
\* dispatched only for a call that the model turn before it requested; and
\* when the prober returns "up", "started" or "timeout" the function goes on
\* to the first model call.
C15_PhaseOrder ==
    /\ [](Phase(pc) \in {"PROBING", "CONVERSING", "TOOL_DISPATCH", "DONE"} =>
            /\ Committed("get-sandbox-id")
            /\ Committed("get-sandbox-url")
            /\ sandboxId = "sbx"
            /\ sandboxUrl = "https://host")
    /\ [](Phase(pc) \in {"CONVERSING", "TOOL_DISPATCH", "DONE"} =>
            Committed("ensure-dev-server"))
    /\ [](Phase(pc) \in {"PROVISIONING", "PROBING"} =>
            steps = 0 /\ turnText = <<>> /\ nToolCalls = 0 /\ ~result.returned)
    /\ [][ /\ Phase(pc') # Phase(pc) => <<Phase(pc), Phase(pc')>> \in PhaseMoves
           /\ Dispatched =>
                /\ pc = "tools"
                /\ nToolCalls > 0
                /\ nToolResults < nToolCalls
                /\ nToolCalls' = nToolCalls
           /\ (pc = "ensure-return" /\ ret \in {"up", "started", "timeout"}) =>
                /\ pc' = "generate"
                /\ steps' = 0
                /\ failure' = "none" ]_vars

\* C15's case: the prober returned "timeout" and the function is about to
\* make its first model call.
C15_Witness ==
    /\ pc = "generate"
    /\ steps = 0
    /\ Committed("get-sandbox-id")
    /\ Committed("get-sandbox-url")
    /\ Committed("ensure-dev-server")
    /\ Outcome("ensure-dev-server") = StrOutcome("timeout")

\* C16: a model turn is followed by at most one tool dispatch: at no time
\* has more than one call of the current turn been dispatched.
C16_OneDispatchPerTurn == nToolResults <= 1

\* One of the three termination conditions is true.
AnyStopCondition ==
    \/ steps = StepCeiling
    \/ finalizeCalled
    \/ taskSummaryAchieved

\* C17: the loop ends only at a turn boundary, with every tool call of the
\* turn dispatched and its result recorded and onStepFinish run, and it ends
\* at the first boundary where the step count is 10, finalizeTask was called
\* in the turn or the flag is set; while calls of a turn are being
\* dispatched the loop goes nowhere but to the next call or to the hook.
C17_StopAtTurnBoundary ==
    /\ [](pc = "stop" => nToolResults = nToolCalls /\ steps >= 1)
    /\ [][ /\ (pc' = "return" /\ pc # "return") =>
                /\ pc = "stop"
                /\ nToolResults = nToolCalls
                /\ AnyStopCondition \/ nToolCalls = 0
           /\ (pc = "stop" /\ AnyStopCondition) => pc' = "return"
           /\ (pc = "stop" /\ pc' = "generate") => ~AnyStopCondition
           /\ pc = "tools" =>
                /\ pc' \in {"tools", "hook"}
                /\ nToolResults' = nToolResults + 1
                /\ (pc' = "hook") = (nToolResults' = nToolCalls)
           /\ pc = "hook" => (pc' = "stop" /\ steps' = steps + 1)
         ]_vars

\* C17's case: a turn with a summary marker and tool calls, none of them
\* finalizeTask, below the step ceiling: every call was dispatched, the hook
\* set the flag, and the loop has ended.
C17_Witness ==
    /\ pc = "return"
    /\ taskSummaryAchieved
    /\ ~finalizeCalled
    /\ steps < StepCeiling
    /\ nToolCalls = 2
    /\ nToolResults = nToolCalls

\* C18: the record returned by a run that was interrupted and resumed is the
\* one an uninterrupted run with the same model turns returns: when the model
\* last tool call before the return was a write-files call answered with the
\* file map, the returned files are that map, and when it was a finalize
\* call that passed the schema, the returned summary is a string.
C18_ResumeEquivalence ==
    pc = "done" =>
        /\ ( /\ lastCall.tool = "createOrUpdateFiles"
             /\ lastCall.valid
             /\ lastResult.kind = "object" )
           => result.files = lastResult.files
        /\ (lastCall.tool = "finalizeTask" /\ lastCall.valid)
           => result.summary.def

\* C19: at every turn boundary, and from there to the return, the flag
\* taskSummaryAchieved is true exactly when the summary is a non-empty
\* string; so a run that returns with the flag set returns a non-empty
\* summary.
C19_FlagIffSummary ==
    /\ pc \in {"stop", "return", "done"} =>
          (taskSummaryAchieved <=> Truthy(summary))
    /\ (pc = "done" /\ taskSummaryAchieved) => Truthy(result.summary)

\* C19's case: finalizeTask was given white space only, which left the
\* summary empty and the flag false, the marker of the turn's text then set
\* both, and the run has returned.
C19_Witness ==
    /\ pc = "done"
    /\ lastCall.tool = "finalizeTask"
    /\ lastCall.valid
    /\ lastCall.summary = <<" ">>
    /\ nToolResults = 1
    /\ taskSummaryAchieved
    /\ result.summary = extractTaskSummary(turnText)
    /\ Truthy(result.summary)

\* C20: every entry of the file map is the content the sandbox holds for
\* that path, put there by the latest write of the write-files tool to it
\* (the tool is the only writer of these paths); and when a write-files call
\* fails at its j-th file the tool returns an error text, the files before j
\* are recorded with their new content, in the sandbox too, and the j-th and
\* later files have changed nothing in the map.
C20_MapMatchesSandboxWrites ==
    /\ \A p \in DOMAIN updatedFiles :
          /\ p \in DOMAIN sandboxFiles
          /\ sandboxFiles[p] = updatedFiles[p]
    /\ WriteFailed =>
          LET before == SubSeq(lastCall.files, 1, thrownAt - 1)
          IN  /\ thrownAt <= Len(lastCall.files)
              /\ IsErrorText(lastResult)
              /\ \A k \in 1..Len(before) :
                    /\ before[k].path \in DOMAIN updatedFiles
                    /\ updatedFiles[before[k].path] =
                           WriteAll(EmptyMap, before)[before[k].path]
              /\ \A p \in Paths \ {before[k].path : k \in 1..Len(before)} :
                    SameEntry(updatedFiles, beforeCall, p)

\* C20's case: the call [a.txt: "2", b.txt: "x"] failed at its second file:
\* a.txt is recorded and written with "2", b.txt is not in the map.
C20_Witness ==
    /\ WriteFailed
    /\ thrownAt = 2
    /\ lastCall.files = <<File("a.txt", "2"), File("b.txt", "x")>>
    /\ updatedFiles = [p \in {"a.txt"} |-> "2"]
    /\ sandboxFiles["a.txt"] = "2"
    /\ "b.txt" \notin DOMAIN sandboxFiles

====
